---- MODULE Spec2Model ----
(***************************************************************************)
(* A model of hb.py: the HackerBoxes scraper (name normaliser, catalogue   *)
(* page parser, pagination walker, item detail parser, aggregator) and    *)
(* the MarkdownTable renderer.                                             *)
(*                                                                         *)
(* Python strings are TLA+ strings; s[i] is Char(s, i + 1).  Each          *)
(* component has its own specification over the shared variables:          *)
(*   SpecNorm   - the body of the product loop of parse_box_names          *)
(*   SpecRun    - get_all_boxes followed by get_all_box_contents           *)
(*   SpecDetail - the bullet extraction and the two row shapes             *)
(*   SpecTable  - MarkdownTable.__init__ and MarkdownTable.generate        *)
(***************************************************************************)
EXTENDS Integers, Sequences, FiniteSets, TLC

\* ------------------------------------------------------------------------
\* Python string primitives
\* ------------------------------------------------------------------------

\* s[m-1:n] for m >= 1: a slice past either end is cut, never an error
Sub(s, m, n) ==
  IF m > n \/ m > Len(s) \/ n < 1 THEN ""
  ELSE SubSeq(s, IF m < 1 THEN 1 ELSE m, IF n > Len(s) THEN Len(s) ELSE n)

\* the character at position i (1-based), "" outside the string
Char(s, i) == Sub(s, i, i)

\* s[n:]
Slice(s, n) == Sub(s, n + 1, Len(s))

\* A-Z, a-z and 0-9
UpperSet ==
  { "A", "B", "C", "D", "E", "F", "G", "H", "I", "J", "K", "L", "M",
    "N", "O", "P", "Q", "R", "S", "T", "U", "V", "W", "X", "Y", "Z" }

LowerSet ==
  { "a", "b", "c", "d", "e", "f", "g", "h", "i", "j", "k", "l", "m",
    "n", "o", "p", "q", "r", "s", "t", "u", "v", "w", "x", "y", "z" }

DigitSet == { "0", "1", "2", "3", "4", "5", "6", "7", "8", "9" }

AlnumSet ==
  { "A", "B", "C", "D", "E", "F", "G", "H", "I", "J", "K", "L", "M",
    "N", "O", "P", "Q", "R", "S", "T", "U", "V", "W", "X", "Y", "Z",
    "a", "b", "c", "d", "e", "f", "g", "h", "i", "j", "k", "l", "m",
    "n", "o", "p", "q", "r", "s", "t", "u", "v", "w", "x", "y", "z",
    "0", "1", "2", "3", "4", "5", "6", "7", "8", "9" }

\* the characters str.split(), str.strip() and the regex class \s treat as
\* white space (the ASCII ones)
Whitespace == {" ", "\t", "\n", "\r"}

\* the position of the first occurrence of sub in s at or after i, 0 when
\* there is none
RECURSIVE FindFrom(_, _, _)
FindFrom(s, sub, i) ==
  IF i + Len(sub) - 1 > Len(s) THEN 0
  ELSE IF Sub(s, i, i + Len(sub) - 1) = sub THEN i
  ELSE FindFrom(s, sub, i + 1)

\* str.find(sub) + 1
Find(s, sub) == FindFrom(s, sub, 1)

\* sub in s
Contains(s, sub) == Find(s, sub) # 0

\* s.split(sep, 1)[0] and s.split(sep, 1)[1], for a separator that occurs
SplitBefore(s, sep) == Sub(s, 1, Find(s, sep) - 1)
SplitAfter(s, sep) == Sub(s, Find(s, sep) + Len(sep), Len(s))

RECURSIVE LStrip(_)
LStrip(s) == IF Len(s) > 0 /\ Char(s, 1) \in Whitespace THEN LStrip(Tail(s)) ELSE s

RECURSIVE RStrip(_)
RStrip(s) ==
  IF Len(s) > 0 /\ Char(s, Len(s)) \in Whitespace
  THEN RStrip(Sub(s, 1, Len(s) - 1)) ELSE s

\* str.strip()
Strip(s) == RStrip(LStrip(s))

\* str.isalnum() on ASCII text: non-empty and every character a letter or digit
IsAlnum(s) ==
  /\ Len(s) > 0
  /\ \A i \in 1..Len(s) : Char(s, i) \in AlnumSet

\* the class [^a-zA-Z0-9\s-] does not match c
Kept(c) == c \in AlnumSet \/ c \in Whitespace \/ c = "-"

\* re.sub(r'[^a-zA-Z0-9\s-]', '', s)
RECURSIVE ReSubPunct(_)
ReSubPunct(s) ==
  IF Len(s) = 0 THEN ""
  ELSE IF Kept(Char(s, 1))
       THEN Char(s, 1) \o ReSubPunct(Tail(s))
       ELSE ReSubPunct(Tail(s))

\* str.lower() of one character
LowerChar(c) ==
  CASE c = "A" -> "a"
    [] c = "B" -> "b"
    [] c = "C" -> "c"
    [] c = "D" -> "d"
    [] c = "E" -> "e"
    [] c = "F" -> "f"
    [] c = "G" -> "g"
    [] c = "H" -> "h"
    [] c = "I" -> "i"
    [] c = "J" -> "j"
    [] c = "K" -> "k"
    [] c = "L" -> "l"
    [] c = "M" -> "m"
    [] c = "N" -> "n"
    [] c = "O" -> "o"
    [] c = "P" -> "p"
    [] c = "Q" -> "q"
    [] c = "R" -> "r"
    [] c = "S" -> "s"
    [] c = "T" -> "t"
    [] c = "U" -> "u"
    [] c = "V" -> "v"
    [] c = "W" -> "w"
    [] c = "X" -> "x"
    [] c = "Y" -> "y"
    [] c = "Z" -> "z"
    [] OTHER -> c

RECURSIVE Lower(_)
Lower(s) == IF Len(s) = 0 THEN "" ELSE LowerChar(Char(s, 1)) \o Lower(Tail(s))

\* str.split(): the maximal runs of non-white-space characters, in order
RECURSIVE SplitWords(_, _)
SplitWords(s, word) ==
  IF Len(s) = 0
  THEN IF word = "" THEN << >> ELSE <<word>>
  ELSE IF Char(s, 1) \in Whitespace
       THEN (IF word = "" THEN << >> ELSE <<word>>) \o SplitWords(Tail(s), "")
       ELSE SplitWords(Tail(s), word \o Char(s, 1))

Split(s) == SplitWords(s, "")

\* sep.join(parts)
RECURSIVE Join(_, _)
Join(sep, parts) ==
  IF Len(parts) = 0 THEN ""
  ELSE IF Len(parts) = 1 THEN parts[1]
  ELSE parts[1] \o sep \o Join(sep, Tail(parts))

\* all strings over an alphabet of length exactly n / at most n
RECURSIVE StringsOfLen(_, _)
StringsOfLen(alphabet, n) ==
  IF n = 0 THEN {""}
  ELSE {s \o c : s \in StringsOfLen(alphabet, n - 1), c \in alphabet}

StringsUpTo(alphabet, n) == UNION {StringsOfLen(alphabet, k) : k \in 0..n}

\* ------------------------------------------------------------------------
\* Name normaliser: hb.py lines 16-21 and 41-55
\* ------------------------------------------------------------------------

NAME_EXCEPTIONS ==
  [k \in {"hackerbox-0095-ai-camera-lab", "hackerbox-0050-fifty",
          "hackerbox-0039-level-up", "hackerbox-0022-bbc-microbit"} |->
     CASE k = "hackerbox-0095-ai-camera-lab" -> "hackerbox-0095-ai-camera"
       [] k = "hackerbox-0050-fifty"         -> "hackerbox-0050"
       [] k = "hackerbox-0039-level-up"      -> "hackerbox-0039-power-up"
       [] k = "hackerbox-0022-bbc-microbit"  -> "hackerbox-0022-bbc-micro-bit"]

\* len('HackerBox #')
PrefixLen == 11

\* line 42
StripPrefix(variantName) == Slice(variantName, PrefixLen)

\* line 43: the unpacking needs two parts
CanSplit(rawProduct) == Contains(rawProduct, " - ")

\* lines 43-44
NumberOf(rawProduct) == Strip(SplitBefore(rawProduct, " - "))
RawNameOf(rawProduct) == SplitAfter(rawProduct, " - ")

\* lines 46-47 without the truncation: the subtitle stays in the name
TruncateSubtitle_Keep(rawName) == rawName

\* lines 46-47
TruncateSubtitle(rawName) ==
  IF Contains(rawName, " - ") THEN SplitBefore(rawName, " - ") ELSE rawName

\* lines 48-49
StripPunct(rawName) == IF ~IsAlnum(rawName) THEN ReSubPunct(rawName) ELSE rawName

\* line 51
Slugify(rawName) == Lower(Join("-", Split(rawName)))

\* line 52
Compose(num, nm) == "hackerbox-" \o num \o "-" \o nm

\* lines 53-54
ApplyException(fullName) ==
  IF fullName \in DOMAIN NAME_EXCEPTIONS THEN NAME_EXCEPTIONS[fullName] ELSE fullName

\* lines 42-55 for one product whose label splits
NormalizeLabel(variantName) ==
  LET rp == StripPrefix(variantName)
  IN  ApplyException(
        Compose(NumberOf(rp), Slugify(StripPunct(TruncateSubtitle(RawNameOf(rp))))))

\* ---- inputs of the normaliser ----

MaxTitleLen == 5

TitleAlphabet == {"A", "7", " ", "-", "'"}

Brand == "HackerBox #"

ExampleLabels ==
  { "HackerBox #0095 - AI Camera Lab - Build a Vision System",
    "HackerBox #0041 - Circuit Breaker",
    "HackerBox #0010 - Inventor's Kit",
    "HackerBox #0095 - AI Camera",
    "HackerBox #0050 - Fifty",
    "HackerBox #0039 - Level Up",
    "HackerBox #0022 - BBC Micro:Bit",
    "HackerBox #0001 Starter" }

GeneratedLabels ==
  {Brand \o "0007 - " \o t : t \in StringsUpTo(TitleAlphabet, MaxTitleLen)}

Labels == ExampleLabels \cup GeneratedLabels

\* ------------------------------------------------------------------------
\* Item detail parser, the text part: hb.py lines 81-97
\* ------------------------------------------------------------------------

\* '.' of a regex without DOTALL: no character of d[from..to] is a newline
NoNewline(d, from, to) == \A k \in from..to : Char(d, k) # "\n"

\* the closing part <\\?/li>\n of the pattern at position p: its length, 0 when
\* it does not match there
CloseLen(d, p) ==
  IF Sub(d, p, p + 5) = "</li>\n" THEN 6
  ELSE IF Sub(d, p, p + 6) = "<\\/li>\n" THEN 7
  ELSE 0

\* the least element of a non-empty set of numbers
Least(S) == CHOOSE x \in S : \A y \in S : x <= y

\* the lengths the group (.+?) can take when it starts at g: at least one
\* character, none a newline, the closing part right after it
GroupLens(d, g) ==
  {b \in 1..(Len(d) - g) : CloseLen(d, g + b) > 0 /\ NoNewline(d, g, g + b - 1)}

\* the lengths .*? can take when \n<li is at p: no newline, '>' right after
\* it, and the rest of the pattern matches from there
TagLens(d, p) ==
  {a \in 0..(Len(d) - p - 4) :
     /\ Char(d, p + 4 + a) = ">"
     /\ NoNewline(d, p + 4, p + 3 + a)
     /\ GroupLens(d, p + 5 + a) # {}}

\* \n<li.*?>(.+?)<\\?/li>\n matches at p
MatchesAt(d, p) == Sub(d, p, p + 3) = "\n<li" /\ TagLens(d, p) # {}

\* re.findall from position p on.  Both quantifiers are lazy, so the engine
\* reports the shortest .*? that lets the rest match, then the shortest group;
\* matches do not overlap, the scan resumes after the newline that ends one
RECURSIVE FindAllFrom(_, _)
FindAllFrom(d, p) ==
  IF p > Len(d) THEN << >>
  ELSE IF ~MatchesAt(d, p) THEN FindAllFrom(d, p + 1)
  ELSE LET g == p + 5 + Least(TagLens(d, p))
           b == Least(GroupLens(d, g))
       IN  <<Sub(d, g, g + b - 1)>> \o FindAllFrom(d, g + b + CloseLen(d, g + b))

\* line 83
ExtractBullets(desc) == FindAllFrom(desc, 1)

\* line 92
RECURSIVE WrapBullets(_)
WrapBullets(bullets) ==
  IF Len(bullets) = 0 THEN << >>
  ELSE <<"<li>" \o bullets[1] \o "</li>">> \o WrapBullets(Tail(bullets))

\* line 93
TableContents(bullets) == "<ul>" \o Join("", WrapBullets(bullets)) \o "</ul>"

\* self.url, line 29
BaseUrl == "https://hackerboxes.com/collections/past-hackerboxes"

\* line 75
BoxUrl(slug) == BaseUrl \o "/products/" \o slug

\* line 94
TableName(slug) == "[" \o slug \o "](" \o BoxUrl(slug) \o ")"

\* line 87 with a file name that does not depend on the box
ImageFile_Fixed(slug) == "hackerbox.png"

\* line 87: image_path.name
ImageFile(slug) == slug \o ".png"

\* lines 96-97: the picture cell of both rows
Picture(slug) == "![" \o slug \o "](assets/" \o ImageFile(slug) \o ")"

\* line 96
TableData(slug, bullets) ==
  [name |-> TableName(slug), picture |-> Picture(slug), contents |-> TableContents(bullets)]

\* line 97 with the table's name cell in the json row
JsonData_LinkName(slug, bullets) ==
  [name |-> TableName(slug), picture |-> Picture(slug), contents |-> bullets]

\* line 97
JsonData(slug, bullets) ==
  [name |-> slug, picture |-> Picture(slug), contents |-> bullets]

\* ---- inputs of the detail parser: descriptions built from segments ----

MaxSegments == 4

Segments ==
  { "\n", "<li>a</li>", "\n<li>b</li>", "<li class=\"x\">c<\\/li>", "<p>d</p>", "\n<li></li>" }

RECURSIVE SegmentStrings(_)
SegmentStrings(n) ==
  IF n = 0 THEN {""}
  ELSE {s \o g : s \in SegmentStrings(n - 1), g \in Segments}

Descriptions == UNION {SegmentStrings(k) : k \in 0..MaxSegments}


\* ------------------------------------------------------------------------
\* MarkdownTable, the text part: hb.py lines 116-140
\* ------------------------------------------------------------------------

\* line 116 with any() in place of all()
RowHasHeaders_Any(row, hs) == \E k \in 1..Len(hs) : hs[k] \in DOMAIN row

\* line 116: all(h in row for h in headers)
RowHasHeaders(row, hs) == \A k \in 1..Len(hs) : hs[k] \in DOMAIN row

\* '-' * n
RECURSIVE Dashes(_)
Dashes(n) == IF n <= 0 THEN "" ELSE "-" \o Dashes(n - 1)

\* line 123-124: ['-' * cl for cl in column_lengths]
DashRuns(hs) == [k \in 1..Len(hs) |-> Dashes(Len(hs[k]) + 2)]

\* lines 122-125; .strip() applies to the joined header text
MakeHeaders(hs) ==
  "| " \o Strip(Join(" | ", hs)) \o " |\n" \o "| " \o Join(" | ", DashRuns(hs)) \o " |\n"

\* line 130: [row[h] for h in self.headers]
Cells(row, hs) == [k \in 1..Len(hs) |-> row[hs[k]]]

\* lines 129-134
RECURSIVE MakeRows(_, _)
MakeRows(hs, rs) ==
  IF Len(rs) = 0 THEN ""
  ELSE "| " \o Join(" | ", Cells(rs[1], hs)) \o " |\n" \o MakeRows(hs, Tail(rs))

\* lines 138-140
Generate(hs, rs) == MakeHeaders(hs) \o MakeRows(hs, rs)

\* ---- inputs of the renderer ----

MaxHeaders == 2
MaxRows == 2

HeaderNames == {"a", "b", " c"}

RowChoices ==
  { [k \in {"a", "b"} |-> IF k = "a" THEN "x" ELSE "y"],
    [k \in {"a", "b"} |-> IF k = "a" THEN "y" ELSE "x|z"],
    [k \in {"a", "b", " c"} |-> IF k = "a" THEN "x" ELSE IF k = "b" THEN "y" ELSE "z"],
    [k \in {"a"} |-> "x"],
    [k \in {"b"} |-> "y"] }

SeqsUpTo(S, n) == UNION {[1..k -> S] : k \in 0..n}

HeaderLists == SeqsUpTo(HeaderNames, MaxHeaders)
RowLists == SeqsUpTo(RowChoices, MaxRows)

\* ------------------------------------------------------------------------
\* Catalogue pages and detail pages as the server answers them
\* ------------------------------------------------------------------------

MaxPages == 2

LabelCameraLab == "HackerBox #0095 - AI Camera Lab - Build a Vision System"
LabelCamera == "HackerBox #0095 - AI Camera"
LabelBreaker == "HackerBox #0041 - Circuit Breaker"
LabelUnsplit == "HackerBox #0001 Starter"

\* the product lists of a `var meta` block, by the first variant's name
ProductLists ==
  { << >>, <<LabelCameraLab>>, <<LabelBreaker, LabelCamera>>,
    <<LabelBreaker, LabelUnsplit>> }

\* a listing page: the HTTP status, whether the body holds the `var meta`
\* block, and the products of the block
PageResponses ==
  { [status |-> 404, meta |-> FALSE, products |-> << >>],
    [status |-> 200, meta |-> FALSE, products |-> << >>] }
  \cup {[status |-> 200, meta |-> TRUE, products |-> p] : p \in ProductLists}

\* response.raise_for_status() raises for the 4xx and 5xx statuses
RaisesForStatus(status) == status \in 400..599

\* lines 41-57: the names of a product list
RECURSIVE NamesOf(_)
NamesOf(products) ==
  IF Len(products) = 0 THEN << >>
  ELSE <<NormalizeLabel(products[1])>> \o NamesOf(Tail(products))

\* lines 33-57: what parse_box_names raises ("none" when it returns) and returns
ParseBoxNames(resp) ==
  IF RaisesForStatus(resp.status) THEN [raised |-> "HTTPError", names |-> << >>]
  ELSE IF ~resp.meta THEN [raised |-> "AssertionError", names |-> << >>]
  ELSE IF resp.products = << >> THEN [raised |-> "AssertionError", names |-> << >>]
  ELSE IF \E k \in 1..Len(resp.products) : ~CanSplit(StripPrefix(resp.products[k]))
       THEN [raised |-> "ValueError", names |-> << >>]
  ELSE [raised |-> "none", names |-> NamesOf(resp.products)]

\* line 68 catching requests.HTTPError alone
Swallowed_HttpOnly(exc) == exc = "HTTPError"

\* line 68: except (requests.HTTPError, AssertionError)
Swallowed(exc) == exc \in {"HTTPError", "AssertionError"}

\* line 66 putting the new page in front of the accumulated names
Extend_Prepend(list, more) == more \o list

\* line 66: boxes.extend(names)
Extend(list, more) == list \o more

\* a detail page: the HTTP status, whether the body holds the ProductJson
\* script, and the description of the product in it
DetailResponses ==
  { [status |-> 200, product |-> TRUE, description |-> "<ul>\n<li>Kit</li>\n</ul>"],
    [status |-> 200, product |-> TRUE, description |-> ""],
    [status |-> 200, product |-> FALSE, description |-> ""],
    [status |-> 404, product |-> FALSE, description |-> ""],
    [status |-> 404, product |-> TRUE, description |-> "<ul>\n<li>Kit</li>\n</ul>"] }

\* the answer to the image request: the status and the body
ImageResponses ==
  { [status |-> 200, content |-> "PNG"], [status |-> 404, content |-> "Not Found"] }

\* lines 77-81: get_box_contents passes both assertions (the status is not read)
DetailParses(resp) == resp.product /\ resp.description # ""

VARIABLES
  \* SpecNorm: one iteration of the product loop of parse_box_names
  label, npc, raw_product, number, raw_name, name, full_name, names,
  \* SpecDetail: the text part of get_box_contents for one detail page
  dslug, description, dpc, contents, table_data, json_data,
  \* SpecTable: MarkdownTable
  headers, rows, tpc, checked, self_headers, self_rows, err_row, generated,
  \* SpecRun: get_all_box_contents
  rpc, boxes, i, idx, table_contents, json_contents, result, error,
  \* SpecRun: the listing pages served, the statuses of the last detail and
  \* image requests, and what was written to assets/
  pageLog, fetched, writes

normVars == <<label, npc, raw_product, number, raw_name, name, full_name, names>>
detailVars == <<dslug, description, dpc, contents, table_data, json_data>>
tableVars == <<headers, rows, tpc, checked, self_headers, self_rows, err_row, generated>>
runVars ==
  <<rpc, boxes, i, idx, table_contents, json_contents, result, error,
    pageLog, fetched, writes>>

vars == <<normVars, detailVars, tableVars, runVars>>

\* before the first call of get_box_contents; image 0: no image was requested
NoFetch == [slug |-> "", detail |-> 0, image |-> 0]

NormIdle ==
  /\ label = "" /\ npc = "idle" /\ raw_product = "" /\ number = ""
  /\ raw_name = "" /\ name = "" /\ full_name = "" /\ names = << >>

DetailIdle ==
  /\ dslug = "" /\ description = "" /\ dpc = "idle" /\ contents = << >>
  /\ table_data = << >> /\ json_data = << >>

TableIdle ==
  /\ headers = << >> /\ rows = << >> /\ tpc = "idle" /\ checked = 0
  /\ self_headers = << >> /\ self_rows = << >> /\ err_row = << >>
  /\ generated = << >>

RunIdle ==
  /\ rpc = "idle" /\ boxes = << >> /\ i = 0 /\ idx = 0
  /\ table_contents = << >> /\ json_contents = << >> /\ result = << >>
  /\ error = << >> /\ pageLog = << >> /\ fetched = NoFetch /\ writes = << >>

\* ------------------------------------------------------------------------
\* SpecNorm
\* ------------------------------------------------------------------------

NormInit ==
  /\ label \in Labels
  /\ npc = "prefix"
  /\ raw_product = ""
  /\ number = ""
  /\ raw_name = ""
  /\ name = ""
  /\ full_name = ""
  /\ names = << >>
  /\ DetailIdle /\ TableIdle /\ RunIdle

\* line 42
N_Prefix ==
  /\ npc = "prefix"
  /\ raw_product' = StripPrefix(label)
  /\ npc' = "split"
  /\ UNCHANGED <<label, number, raw_name, name, full_name, names>>
  /\ UNCHANGED <<detailVars, tableVars, runVars>>

\* lines 43-44; a label without ' - ' makes the unpacking raise ValueError
N_Split ==
  /\ npc = "split"
  /\ IF CanSplit(raw_product)
     THEN /\ number' = NumberOf(raw_product)
          /\ raw_name' = RawNameOf(raw_product)
          /\ npc' = "truncate"
     ELSE /\ npc' = "ValueError"
          /\ UNCHANGED <<number, raw_name>>
  /\ UNCHANGED <<label, raw_product, name, full_name, names>>
  /\ UNCHANGED <<detailVars, tableVars, runVars>>

\* lines 46-47
N_Truncate ==
  /\ npc = "truncate"
  /\ raw_name' = TruncateSubtitle(raw_name)
  /\ npc' = "punct"
  /\ UNCHANGED <<label, raw_product, number, name, full_name, names>>
  /\ UNCHANGED <<detailVars, tableVars, runVars>>

\* lines 48-49
N_Punct ==
  /\ npc = "punct"
  /\ raw_name' = StripPunct(raw_name)
  /\ npc' = "slug"
  /\ UNCHANGED <<label, raw_product, number, name, full_name, names>>
  /\ UNCHANGED <<detailVars, tableVars, runVars>>

\* lines 51-52
N_Slug ==
  /\ npc = "slug"
  /\ name' = Slugify(raw_name)
  /\ full_name' = Compose(number, Slugify(raw_name))
  /\ npc' = "exception"
  /\ UNCHANGED <<label, raw_product, number, raw_name, names>>
  /\ UNCHANGED <<detailVars, tableVars, runVars>>

\* lines 53-55
N_Exception ==
  /\ npc = "exception"
  /\ full_name' = ApplyException(full_name)
  /\ names' = Append(names, ApplyException(full_name))
  /\ npc' = "done"
  /\ UNCHANGED <<label, raw_product, number, raw_name, name>>
  /\ UNCHANGED <<detailVars, tableVars, runVars>>

NormNext ==
  \/ N_Prefix
  \/ N_Split
  \/ N_Truncate
  \/ N_Punct
  \/ N_Slug
  \/ N_Exception

SpecNorm == NormInit /\ [][NormNext]_vars

\* ------------------------------------------------------------------------
\* SpecDetail
\* ------------------------------------------------------------------------

DetailInit ==
  /\ dslug \in {"hackerbox-0041-circuit-breaker", "hackerbox-0095-ai-camera"}
  /\ description \in Descriptions
  /\ dpc = "assert"
  /\ contents = << >>
  /\ table_data = << >>
  /\ json_data = << >>
  /\ NormIdle /\ TableIdle /\ RunIdle

\* line 81: assert description
D_Assert ==
  /\ dpc = "assert"
  /\ dpc' = IF description = "" THEN "AssertionError" ELSE "extract"
  /\ UNCHANGED <<dslug, description, contents, table_data, json_data>>
  /\ UNCHANGED <<normVars, tableVars, runVars>>

\* line 83
D_Extract ==
  /\ dpc = "extract"
  /\ contents' = ExtractBullets(description)
  /\ dpc' = "rows"
  /\ UNCHANGED <<dslug, description, table_data, json_data>>
  /\ UNCHANGED <<normVars, tableVars, runVars>>

\* lines 92-98
D_Rows ==
  /\ dpc = "rows"
  /\ table_data' = <<TableData(dslug, contents)>>
  /\ json_data' = <<JsonData(dslug, contents)>>
  /\ dpc' = "done"
  /\ UNCHANGED <<dslug, description, contents>>
  /\ UNCHANGED <<normVars, tableVars, runVars>>

DetailNext ==
  \/ D_Assert
  \/ D_Extract
  \/ D_Rows

SpecDetail == DetailInit /\ [][DetailNext]_vars

\* ------------------------------------------------------------------------
\* SpecTable
\* ------------------------------------------------------------------------

TableInit ==
  /\ headers \in HeaderLists
  /\ rows \in RowLists
  /\ tpc = "init"
  /\ checked = 0
  /\ self_headers = << >>
  /\ self_rows = << >>
  /\ err_row = << >>
  /\ generated = << >>
  /\ NormIdle /\ DetailIdle /\ RunIdle

\* lines 115-116: one iteration of the loop of __init__; the assertion
\* message holds the row
T_CheckRow ==
  /\ tpc = "init"
  /\ checked < Len(rows)
  /\ IF RowHasHeaders(rows[checked + 1], headers)
     THEN /\ checked' = checked + 1
          /\ UNCHANGED <<tpc, err_row>>
     ELSE /\ tpc' = "AssertionError"
          /\ err_row' = <<rows[checked + 1]>>
          /\ UNCHANGED checked
  /\ UNCHANGED <<headers, rows, self_headers, self_rows, generated>>
  /\ UNCHANGED <<normVars, detailVars, runVars>>

\* lines 117-118
T_Construct ==
  /\ tpc = "init"
  /\ checked = Len(rows)
  /\ self_headers' = headers
  /\ self_rows' = rows
  /\ tpc' = "constructed"
  /\ UNCHANGED <<headers, rows, checked, err_row, generated>>
  /\ UNCHANGED <<normVars, detailVars, runVars>>

\* lines 136-140; row[h] of a row without h raises KeyError
T_Generate ==
  /\ tpc = "constructed"
  /\ IF \A k \in 1..Len(self_rows) : RowHasHeaders(self_rows[k], self_headers)
     THEN /\ generated' = <<Generate(self_headers, self_rows)>>
          /\ tpc' = "generated"
     ELSE /\ tpc' = "KeyError"
          /\ UNCHANGED generated
  /\ UNCHANGED <<headers, rows, checked, self_headers, self_rows, err_row>>
  /\ UNCHANGED <<normVars, detailVars, runVars>>

TableNext ==
  \/ T_CheckRow
  \/ T_Construct
  \/ T_Generate

SpecTable == TableInit /\ [][TableNext]_vars

\* ------------------------------------------------------------------------
\* SpecRun
\* ------------------------------------------------------------------------

RunInit ==
  /\ rpc = "first"
  /\ boxes = << >>
  /\ i = 0
  /\ idx = 0
  /\ table_contents = << >>
  /\ json_contents = << >>
  /\ result = << >>
  /\ error = << >>
  /\ pageLog = << >>
  /\ fetched = NoFetch
  /\ writes = << >>
  /\ NormIdle /\ DetailIdle /\ TableIdle

\* lines 61-62: the first page is parsed outside the try block
R_FirstPage ==
  /\ rpc = "first"
  /\ \E resp \in PageResponses :
       LET r == ParseBoxNames(resp)
       IN  /\ pageLog' = Append(pageLog, resp)
           /\ IF r.raised # "none"
              THEN /\ rpc' = "raised"
                   /\ error' = <<"get_all_boxes", r.raised>>
                   /\ UNCHANGED <<boxes, i>>
              ELSE /\ boxes' = r.names
                   /\ i' = 2
                   /\ rpc' = "loop"
                   /\ UNCHANGED error
  /\ UNCHANGED <<idx, table_contents, json_contents, result, fetched, writes>>
  /\ UNCHANGED <<normVars, detailVars, tableVars>>

\* the answers to page number n: the catalogue has at most MaxPages pages
\* with products
AnswersTo(n) ==
  IF n <= MaxPages THEN PageResponses
  ELSE {resp \in PageResponses : Swallowed(ParseBoxNames(resp).raised)}

\* lines 63-71 and 102-103: one iteration of the loop of get_all_boxes; the
\* break returns boxes to get_all_box_contents
R_NextPage ==
  /\ rpc = "loop"
  /\ \E resp \in AnswersTo(i) :
       LET r == ParseBoxNames(resp)
       IN  /\ pageLog' = Append(pageLog, resp)
           /\ IF r.raised = "none"
              THEN /\ boxes' = Extend(boxes, r.names)
                   /\ i' = i + 1
                   /\ UNCHANGED <<rpc, error>>
              ELSE IF Swallowed(r.raised)
              THEN /\ rpc' = "contents"
                   /\ UNCHANGED <<boxes, i, error>>
              ELSE /\ rpc' = "raised"
                   /\ error' = <<"get_all_boxes", r.raised>>
                   /\ UNCHANGED <<boxes, i>>
  /\ UNCHANGED <<idx, table_contents, json_contents, result, fetched, writes>>
  /\ UNCHANGED <<normVars, detailVars, tableVars>>

\* lines 104-107 with 73-98: get_box_contents for the next name
R_BoxContents ==
  /\ rpc = "contents"
  /\ idx < Len(boxes)
  /\ \E d \in DetailResponses :
       LET slug == boxes[idx + 1]
       IN  IF ~DetailParses(d)
           THEN /\ rpc' = "raised"
                /\ error' = <<"get_box_contents", "AssertionError">>
                /\ fetched' = [slug |-> slug, detail |-> d.status, image |-> 0]
                /\ UNCHANGED <<idx, table_contents, json_contents, writes>>
           ELSE \E im \in ImageResponses :
                LET bullets == ExtractBullets(d.description)
                IN
                /\ fetched' = [slug |-> slug, detail |-> d.status, image |-> im.status]
                /\ writes' = Append(writes, [path |-> ImageFile(slug), bytes |-> im.content])
                /\ table_contents' = Append(table_contents, TableData(slug, bullets))
                /\ json_contents' = Append(json_contents, JsonData(slug, bullets))
                /\ idx' = idx + 1
                /\ UNCHANGED <<rpc, error>>
  /\ UNCHANGED <<boxes, i, result, pageLog>>
  /\ UNCHANGED <<normVars, detailVars, tableVars>>

\* line 108
R_Return ==
  /\ rpc = "contents"
  /\ idx = Len(boxes)
  /\ result' = <<table_contents, json_contents>>
  /\ rpc' = "returned"
  /\ UNCHANGED <<boxes, i, idx, table_contents, json_contents, error, pageLog, fetched, writes>>
  /\ UNCHANGED <<normVars, detailVars, tableVars>>

RunNext ==
  \/ R_FirstPage
  \/ R_NextPage
  \/ R_BoxContents
  \/ R_Return

SpecRun == RunInit /\ [][RunNext]_vars

\* ------------------------------------------------------------------------
\* The pagination walker: C1, C2
\* ------------------------------------------------------------------------

\* a 2xx status
IsSuccess(status) == status \in 200..299

\* a page that ends the pagination: non-2xx status, no `var meta` block, or
\* an empty product list
Terminates(resp) ==
  ~IsSuccess(resp.status) \/ ~resp.meta \/ resp.products = << >>

\* a page on which parse_box_names returns
ParsesOk(resp) ==
  /\ ~Terminates(resp)
  /\ \A k \in 1..Len(resp.products) : CanSplit(StripPrefix(resp.products[k]))

\* the slugs of one page, in product order
PageSlugs(resp) == [k \in 1..Len(resp.products) |-> NormalizeLabel(resp.products[k])]

\* the slugs of pages 1..n of the log, in page order
RECURSIVE ConcatPages(_, _)
ConcatPages(log, n) ==
  IF n = 0 THEN << >> ELSE ConcatPages(log, n - 1) \o PageSlugs(log[n])

WalkerRaised == rpc = "raised" /\ error[1] = "get_all_boxes"

\* C1: when pages 1..k-1 (k >= 2) parse and page k ends the pagination (non-2xx
\* status, missing `var meta` block or empty product list), get_all_boxes does
\* not raise and returns the slugs of pages 1..k-1, in page order and per-page
\* product order.
C1_WalkerReturnsPrefix ==
  LET k == Len(pageLog)
  IN  (/\ k >= 2
       /\ Terminates(pageLog[k])
       /\ \A j \in 1..(k - 1) : ParsesOk(pageLog[j]))
      => /\ rpc \in {"contents", "returned", "raised"}
         /\ ~WalkerRaised
         /\ boxes = ConcatPages(pageLog, k - 1)

\* C1 witness: pages 1 and 2 parsed (three slugs), page 3 answered non-2xx
\* and the walker has returned.
C1_Witness ==
  /\ rpc = "contents"
  /\ Len(pageLog) = 3
  /\ ~IsSuccess(pageLog[3].status)
  /\ Len(boxes) = 3

\* C2 as stated: a page that ends the pagination, the first page included,
\* never makes get_all_boxes raise.
C2_NeverSurfaced ==
  (Len(pageLog) >= 1 /\ Terminates(pageLog[Len(pageLog)])) => ~WalkerRaised

\* C2 amended: a page after the first that ends the pagination is swallowed
\* (get_all_boxes returns what it accumulated); on the first page the same
\* condition is raised to the caller, HTTPError for a non-2xx status and
\* AssertionError for a missing block or an empty list, and nothing is returned.
C2_SwallowedAfterFirstPage ==
  LET k == Len(pageLog)
  IN  (k >= 1 /\ Terminates(pageLog[k]))
      => /\ WalkerRaised <=> k = 1
         /\ k = 1 =>
              /\ error[2] =
                   (IF IsSuccess(pageLog[1].status) THEN "AssertionError" ELSE "HTTPError")
              /\ boxes = << >>
              /\ result = << >>
         /\ k >= 2 => boxes = ConcatPages(pageLog, k - 1)

\* C2 witness: page 2 came without the `var meta` block and the walker
\* returned the first page's slugs.
C2_Witness ==
  /\ rpc = "contents"
  /\ Len(pageLog) = 2
  /\ IsSuccess(pageLog[2].status)
  /\ ~pageLog[2].meta
  /\ boxes # << >>

\* ------------------------------------------------------------------------
\* The detail fetches and the aggregator: C3, C4, C10
\* ------------------------------------------------------------------------

\* C3: a non-2xx status on the detail fetch or on the image fetch is fatal:
\* get_box_contents raises, no row is produced for that slug and the run is
\* aborted.
C3_Non2xxIsFatal ==
  (/\ fetched # NoFetch
   /\ \/ ~IsSuccess(fetched.detail)
      \/ (fetched.image # 0 /\ ~IsSuccess(fetched.image)))
  => /\ rpc = "raised"
     /\ result = << >>
     /\ boxes[idx + 1] = fetched.slug
     /\ Len(table_contents) = idx
     /\ Len(json_contents) = idx

\* C4: when get_all_box_contents returns, both sequences are as long as the
\* walker's slug sequence, the i-th rows come from the i-th slug (the json
\* name is the slug, the table name its markdown link, the pictures equal);
\* when a get_box_contents call fails nothing is returned.
C4_RowsMatchSlugs ==
  /\ rpc = "returned" =>
       /\ Len(result) = 2
       /\ Len(result[1]) = Len(boxes)
       /\ Len(result[2]) = Len(boxes)
       /\ \A k \in 1..Len(boxes) :
            /\ result[2][k].name = boxes[k]
            /\ result[1][k].name =
                 "[" \o boxes[k] \o "](" \o BaseUrl \o "/products/" \o boxes[k] \o ")"
            /\ result[1][k].picture = result[2][k].picture
            /\ result[1][k].picture =
                 "![" \o boxes[k] \o "](assets/" \o boxes[k] \o ".png)"
  /\ rpc # "returned" => result = << >>
  /\ Len(table_contents) = idx
  /\ Len(json_contents) = idx

\* C4 witness: a run over at least two different slugs has returned.
C4_Witness ==
  /\ rpc = "returned"
  /\ Len(boxes) >= 2
  /\ boxes[1] # boxes[2]
  /\ Len(result[1]) = Len(boxes)

\* C10 as stated: within a run no image file is written twice.
C10_WriteOncePerSlug ==
  \A p, q \in 1..Len(writes) : writes[p].path = writes[q].path => p = q

\* C10 amended: the run writes {slug}.png once for every occurrence of the
\* slug in the walker's result that get_box_contents has passed, in that
\* order: once per slug when the slugs are distinct, again for a repeated one.
C10_OneWritePerOccurrence ==
  /\ Len(writes) = idx
  /\ \A k \in 1..Len(writes) : writes[k].path = boxes[k] \o ".png"
  /\ rpc = "returned" => Len(writes) = Len(boxes)

\* C10 witness: the run returned and its first and last slug are the same box.
C10_Witness ==
  /\ rpc = "returned"
  /\ Len(boxes) >= 2
  /\ boxes[1] = boxes[Len(boxes)]
  /\ Len(writes) = Len(boxes)

\* ------------------------------------------------------------------------
\* The name normaliser: C5, C7
\* ------------------------------------------------------------------------

\* ^[a-z0-9]+(-[a-z0-9]+)*$
IsSlug(s) ==
  /\ Len(s) > 0
  /\ \A k \in 1..Len(s) :
       Char(s, k) \in LowerSet \/ Char(s, k) \in DigitSet \/ Char(s, k) = "-"
  /\ Char(s, 1) # "-"
  /\ Char(s, Len(s)) # "-"
  /\ ~Contains(s, "--")

\* C5: every slug parse_box_names returns for a label
\* `HackerBox #<number> - <title>` matches ^[a-z0-9]+(-[a-z0-9]+)*$.
C5_SlugShape == npc = "done" => IsSlug(full_name)

\* the reference name of a title, read off character by character: white
\* space between kept characters becomes one hyphen, letters, digits and
\* hyphens are kept in lower case, everything else is dropped
RECURSIVE RefName(_, _, _)
RefName(title, out, gap) ==
  IF Len(title) = 0 THEN out
  ELSE LET c == Char(title, 1)
       IN  IF c \in Whitespace THEN RefName(Tail(title), out, out # "")
           ELSE IF c \in AlnumSet \/ c = "-"
           THEN RefName(Tail(title), out \o (IF gap THEN "-" ELSE "") \o LowerChar(c), FALSE)
           ELSE RefName(Tail(title), out, gap)

\* the reference normaliser of the claim
RefNormalize(lbl) ==
  LET rest  == Sub(lbl, 12, Len(lbl))
      cut   == Find(rest, " - ")
      num   == Strip(Sub(rest, 1, cut - 1))
      after == Sub(rest, cut + 3, Len(rest))
      cut2  == Find(after, " - ")
      title == IF cut2 = 0 THEN after ELSE Sub(after, 1, cut2 - 1)
      key   == "hackerbox-" \o num \o "-" \o RefName(title, "", FALSE)
  IN  IF key \in DOMAIN NAME_EXCEPTIONS THEN NAME_EXCEPTIONS[key] ELSE key

\* C7: the slug of a label `HackerBox #<number> - <title>[ - <subtitle>]` is
\* the reference normaliser's: prefix dropped, number and title split at the
\* first ' - ', title cut at its next ' - ', punctuation stripped, lower case,
\* words joined by hyphens, the exception table applied once; the three
\* labels of the specification give the three slugs it names.
C7_NormalizerMatchesReference ==
  npc = "done" =>
    /\ full_name = RefNormalize(label)
    /\ names = <<full_name>>
    /\ label = "HackerBox #0095 - AI Camera Lab - Build a Vision System"
         => full_name = "hackerbox-0095-ai-camera"
    /\ label = "HackerBox #0041 - Circuit Breaker"
         => full_name = "hackerbox-0041-circuit-breaker"
    /\ label = "HackerBox #0010 - Inventor's Kit"
         => full_name = "hackerbox-0010-inventors-kit"

\* C7 witness: the label with a subtitle and an exception entry has been
\* normalised.
C7_Witness ==
  /\ npc = "done"
  /\ label = "HackerBox #0095 - AI Camera Lab - Build a Vision System"
  /\ names = <<"hackerbox-0095-ai-camera">>

\* ------------------------------------------------------------------------
\* The detail parser's two row shapes: C6
\* ------------------------------------------------------------------------

\* the <li>...</li> items of a list body, in order
RECURSIVE ListItems(_)
ListItems(body) ==
  IF Sub(body, 1, 4) = "<li>" /\ Contains(Slice(body, 4), "</li>")
  THEN <<SplitBefore(Slice(body, 4), "</li>")>>
         \o ListItems(SplitAfter(Slice(body, 4), "</li>"))
  ELSE << >>

\* the bullets read back from a table cell <ul>...</ul>
ItemsOf(cell) == ListItems(Sub(cell, 5, Len(cell) - 5))

\* C6: the <li> items of the TableRow's contents, the <ul> wrapper stripped,
\* are the bullets of the JsonRow's contents: same count, order and text.
C6_RoundTrip ==
  dpc = "done" => ItemsOf(table_data[1].contents) = json_data[1].contents

\* ------------------------------------------------------------------------
\* MarkdownTable: C8, C9
\* ------------------------------------------------------------------------

\* the line | c1 | c2 | ... | of the claim
TableLine(cells) == "| " \o Join(" | ", cells) \o " |\n"

RECURSIVE ExpectedRows(_, _)
ExpectedRows(hs, rs) ==
  IF Len(rs) = 0 THEN ""
  ELSE TableLine([k \in 1..Len(hs) |-> rs[1][hs[k]]]) \o ExpectedRows(hs, Tail(rs))

ExpectedTable(hs, rs) ==
  TableLine(hs) \o TableLine([k \in 1..Len(hs) |-> Dashes(Len(hs[k]) + 2)])
    \o ExpectedRows(hs, rs)

NewlineCount(s) == Cardinality({k \in 1..Len(s) : Char(s, k) = "\n"})

\* C8: generate returns len(rows)+2 newline-terminated lines: the header line
\* | h1 | h2 | ... |, the separator with dash runs of len(h)+2, and one line
\* per row with the row's values in header order, verbatim.
C8_GenerateExact ==
  tpc = "generated" =>
    /\ generated = <<ExpectedTable(headers, rows)>>
    /\ NewlineCount(generated[1]) = Len(rows) + 2

\* the rows of the input that lack a header key
Offending == {k \in 1..Len(rows) : \E h \in 1..Len(headers) : headers[h] \notin DOMAIN rows[k]}

\* C9: when a row lacks a header key the construction fails with the first
\* such row in its message, and no table text is ever produced.
C9_MissingHeaderFails ==
  /\ Offending # {} =>
       /\ tpc \in {"init", "AssertionError"}
       /\ generated = << >>
       /\ checked < Least(Offending)
       /\ tpc = "AssertionError" => err_row = <<rows[Least(Offending)]>>
  /\ tpc = "AssertionError" => Offending # {}

\* C9 witness: the first row was complete, the second was not, and the
\* constructor failed on the second.
C9_Witness ==
  /\ tpc = "AssertionError"
  /\ Len(rows) = 2
  /\ Offending = {2}
  /\ err_row = <<rows[2]>>

====
